---- MODULE Spec2Model ----
(***************************************************************************)
(* Model of tfx/components/base/function_parser.py: the parser that turns  *)
(* a typehint-annotated component executor function into the triple        *)
(* (inputs, outputs, arg_formats).                                         *)
(*                                                                         *)
(* A function declaration is a record                                      *)
(*   isFunction : is the object a types.FunctionType                       *)
(*   params     : the positional parameters, in order, [name, hint]        *)
(*   ndefaults  : how many of the last positional parameters have a default*)
(*   varargs    : the declaration has *args                                *)
(*   varkw      : the declaration has **kwargs                             *)
(*   kwonly     : the keyword-only parameters, [name, hint, default]       *)
(*   ret        : the return annotation                                    *)
(* An annotation (hint) is a record [kind, type, kwargs]: kind is the class*)
(* of the annotation object (InputArtifact, ..., ComponentOutput), or      *)
(* "class" when the annotation is itself a class (int, Model, bool, ...),  *)
(* or "none" when there is no annotation.                                  *)
(***************************************************************************)
EXTENDS Integers, Sequences, FiniteSets, TLC

VARIABLES
  func,         \* the object handed to parse_typehint_component_function
  pc,           \* where the current call is
  typehints,    \* typing.get_type_hints(func)
  argspec,      \* inspect.getfullargspec(func)
  idx,          \* position of the running for loop
  inputs,       \* the dict inputs of _parse_signature (returned to the caller)
  outputs,      \* the dict outputs of _parse_signature (returned to the caller)
  arg_formats,  \* the list arg_formats of _parse_signature (returned to the caller)
  error,        \* the error the call raised, "" if none
  calls,        \* calls made so far on func
  mutatedAt,    \* the call whose returned contract the caller modified last, 0 if none
  first         \* the outcome of the first call on func

vars == <<func, pc, typehints, argspec, idx, inputs, outputs, arg_formats,
          error, calls, mutatedAt, first>>

(* ---------------- bounds of the model ---------------- *)
MaxArgs == 2
MaxKwOnly == 1
MaxFields == 2
MaxCalls == 2

(* ---------------- annotation values ---------------- *)
Hint(kind, type) == [kind |-> kind, type |-> type, kwargs |-> <<>>]
NoHint == Hint("none", "")

\* Subclasses of tfx.types.artifact.Artifact that occur in the model.
ArtifactClasses ==
  {"Model", "InfraBlessing", "IntegerType", "FloatType", "BytesType", "StringType"}

\* _PRIMITIVE_TO_ARTIFACT: the keys are the classes int, float, bytes, Text.
_PRIMITIVE_TO_ARTIFACT ==
  [t \in {"int", "float", "bytes", "Text"} |->
     CASE t = "int" -> "IntegerType"
       [] t = "float" -> "FloatType"
       [] t = "bytes" -> "BytesType"
       [] t = "Text" -> "StringType"]

\* The enum ArgFormats.
ArgFormats ==
  {"INPUT_ARTIFACT", "INPUT_ARTIFACT_URI", "OUTPUT_ARTIFACT",
   "OUTPUT_ARTIFACT_URI", "ARTIFACT_VALUE"}

\* isinstance(h, annotations.<cls>)
isinstance(h, cls) == h.kind = cls

\* h in _PRIMITIVE_TO_ARTIFACT (h is hashable: a class or a marker instance)
InPrimitiveTable(h) == h.kind = "class" /\ h.type \in DOMAIN _PRIMITIVE_TO_ARTIFACT

\* inspect.isclass(h) and issubclass(h, artifact.Artifact)
IsArtifactClass(h) == h.kind = "class" /\ h.type \in ArtifactClasses

(* ---------------- dictionaries ---------------- *)
EmptyDict == [k \in {} |-> ""]
Put(d, k, v) == [x \in (DOMAIN d) \cup {k} |-> IF x = k THEN v ELSE d[x]]

(* ---------------- the declarations the model draws from ---------------- *)
(* Python rejects a declaration that names two parameters alike, and the   *)
(* parser compares names only for equality, so the i-th positional         *)
(* parameter is named ArgNames[i] and the i-th keyword-only parameter      *)
(* KwOnlyNames[i]. A field of ComponentOutput may carry any name: that of  *)
(* a parameter, or a name of its own.                                      *)
ArgNames == <<"model", "blessing", "examples">>
KwOnlyNames == <<"threshold", "limit">>
FieldNames == {"model", "blessing", "result"}

\* ComponentOutput(**kwargs): an instance that keeps its keyword arguments.
ComponentOutput(fields) == [kind |-> "ComponentOutput", type |-> "", kwargs |-> fields]

SeqsUpTo(S, n) == UNION { [1..k -> S] : k \in 0..n }
DistinctNames(s) == \A i, j \in 1..Len(s) : i # j => s[i].name # s[j].name

\* The parameter lists of at most MaxArgs parameters annotated from hints.
ParamLists(hints) ==
  { [i \in 1..Len(hs) |-> [name |-> ArgNames[i], hint |-> hs[i]]] :
      hs \in SeqsUpTo(hints, MaxArgs) }

\* The keyword-only parameters a declaration may have: unannotated, annotated
\* with a default value, annotated without one.
KwOnlyShapes ==
  { <<NoHint, FALSE>>, <<Hint("class", "int"), TRUE>>,
    <<Hint("OutputArtifact", "InfraBlessing"), FALSE>> }

\* The keyword-only parameter lists of at most MaxKwOnly parameters.
KwOnlyLists ==
  { [i \in 1..Len(ks) |-> [name |-> KwOnlyNames[i], hint |-> ks[i][1], default |-> ks[i][2]]] :
      ks \in SeqsUpTo(KwOnlyShapes, MaxKwOnly) }

\* The field lists of at most MaxFields fields.
FieldLists(names, hints) ==
  { s \in SeqsUpTo([name : names, hint : hints], MaxFields) : DistinctNames(s) }

\* Every annotation shape a parameter may carry: the four markers, two
\* primitives, a class that is no primitive, and none at all.
ParamHints ==
  { Hint("InputArtifact", "Model"),
    Hint("InputArtifactUri", "InfraBlessing"),
    Hint("OutputArtifact", "InfraBlessing"),
    Hint("OutputArtifactUri", "Model"),
    Hint("class", "int"),
    Hint("class", "float"),
    Hint("class", "bool") }

\* Every annotation shape a field of ComponentOutput(...) may carry.
FieldHints ==
  { Hint("OutputArtifact", "InfraBlessing"),
    Hint("OutputArtifactUri", "Model"),
    Hint("class", "InfraBlessing"),
    Hint("class", "bytes"),
    Hint("class", "Text"),
    Hint("class", "bool") }

Decl(ps, nd, va, vk, ko, r) ==
  [isFunction |-> TRUE, params |-> ps, ndefaults |-> nd, varargs |-> va,
   varkw |-> vk, kwonly |-> ko, ret |-> r]

\* An object that is no types.FunctionType (a class, a bound method, ...).
NotAFunctionObject ==
  [isFunction |-> FALSE, params |-> <<>>, ndefaults |-> 0, varargs |-> FALSE,
   varkw |-> FALSE, kwonly |-> <<>>, ret |-> NoHint]

\* Declarations of every structural shape: any return annotation, *args,
\* **kwargs, defaults, keyword-only parameters, unannotated parameters.
StructuralDecl(f) ==
  \E ps \in ParamLists({NoHint, Hint("InputArtifact", "Model"), Hint("class", "bool")}) :
  \E nd \in 0..Len(ps) :
  \E va \in BOOLEAN, vk \in BOOLEAN :
  \E ko \in KwOnlyLists :
  \E r \in { NoHint, Hint("class", "NoneType"), ComponentOutput(<<>>),
             ComponentOutput(<<[name |-> "threshold", hint |-> Hint("class", "Text")]>>),
             ComponentOutput(<<[name |-> "result", hint |-> Hint("class", "InfraBlessing")]>>) } :
    f = Decl(ps, nd, va, vk, ko, r)

\* Declarations with every parameter annotation, and a few fields.
ParameterDecl(f) ==
  \E ps \in ParamLists(ParamHints) :
  \E fs \in FieldLists({"model", "result"}, {Hint("class", "bytes"), Hint("class", "InfraBlessing")}) :
    f = Decl(ps, 0, FALSE, FALSE, <<>>, ComponentOutput(fs))

\* Declarations with every field annotation, and a few parameter annotations.
FieldDecl(f) ==
  \E ps \in ParamLists({Hint("InputArtifact", "Model"), Hint("OutputArtifactUri", "Model"),
                        Hint("class", "float")}) :
  \E fs \in FieldLists(FieldNames, FieldHints) :
    f = Decl(ps, 0, FALSE, FALSE, <<>>, ComponentOutput(fs))

\* The objects a call may be handed.
IsDeclaration(f) ==
  \/ f = NotAFunctionObject
  \/ StructuralDecl(f)
  \/ ParameterDecl(f)
  \/ FieldDecl(f)

(* ---------------- the reflection the entry point calls ---------------- *)
\* typing.get_type_hints(func): every annotated parameter, positional or
\* keyword-only, and 'return'. The annotations of a declaration are objects
\* (none is a string left to resolve), so the resolution cannot fail.
get_type_hints(f) ==
  LET all == [i \in 1..(Len(f.params) + Len(f.kwonly)) |->
                IF i <= Len(f.params)
                  THEN [name |-> f.params[i].name, hint |-> f.params[i].hint]
                  ELSE [name |-> f.kwonly[i - Len(f.params)].name,
                        hint |-> f.kwonly[i - Len(f.params)].hint]]
      annotated == { i \in DOMAIN all : all[i].hint # NoHint }
      keys == { all[i].name : i \in annotated } \cup
              (IF f.ret # NoHint THEN {"return"} ELSE {})
  IN [k \in keys |->
        IF k = "return" THEN f.ret
        ELSE all[CHOOSE i \in annotated : all[i].name = k].hint]

\* inspect.getfullargspec(func): args holds the positional parameters only,
\* defaults the defaults of positional parameters only; keyword-only
\* parameters and their defaults are in kwonlyargs and kwonlydefaults. A
\* Python 3 function has no nested parameter, so no entry of args is a list.
getfullargspec(f) ==
  [args |-> [i \in 1..Len(f.params) |-> [name |-> f.params[i].name, nested |-> FALSE]],
   varargs |-> f.varargs,
   varkw |-> f.varkw,
   defaults |-> f.ndefaults,
   kwonlyargs |-> [i \in 1..Len(f.kwonly) |-> f.kwonly[i].name],
   kwonlydefaults |-> { f.kwonly[i].name : i \in { j \in 1..Len(f.kwonly) : f.kwonly[j].default } }]

NoArgspec == getfullargspec(NotAFunctionObject)

(* ---------------- outcomes ---------------- *)
NoOutcome == [error |-> "none yet", inputs |-> EmptyDict, outputs |-> EmptyDict,
              arg_formats |-> <<>>]
Raised(e) == [error |-> e, inputs |-> EmptyDict, outputs |-> EmptyDict,
              arg_formats |-> <<>>]
Contract(i, o, a) == [error |-> "", inputs |-> i, outputs |-> o, arg_formats |-> a]

\* The outcome of the call that has just ended.
Outcome == IF pc = "raised" THEN Raised(error) ELSE Contract(inputs, outputs, arg_formats)

\* raise ValueError(...): the call ends, nothing is returned.
Raise(e) ==
  /\ error' = e
  /\ pc' = "raised"
  /\ first' = IF calls = 1 THEN Raised(e) ELSE first

Init ==
  /\ IsDeclaration(func)
  /\ pc = "idle"
  /\ typehints = EmptyDict
  /\ argspec = NoArgspec
  /\ idx = 1
  /\ inputs = EmptyDict
  /\ outputs = EmptyDict
  /\ arg_formats = <<>>
  /\ error = ""
  /\ calls = 0
  /\ mutatedAt = 0
  /\ first = NoOutcome

\* parse_typehint_component_function(func), up to the call of _validate_signature.
Call ==
  /\ pc \in {"idle", "returned", "raised"}
  /\ calls < MaxCalls
  /\ calls' = calls + 1
  /\ idx' = 1
  /\ IF ~func.isFunction
       THEN /\ error' = "NotAFunction"
            /\ pc' = "raised"
            /\ first' = IF calls = 0 THEN Raised("NotAFunction") ELSE first
            /\ UNCHANGED <<typehints, argspec>>
       ELSE /\ typehints' = get_type_hints(func)
            /\ argspec' = getfullargspec(func)
            /\ error' = ""
            /\ pc' = "validate"
            /\ first' = first
  /\ UNCHANGED <<func, inputs, outputs, arg_formats, mutatedAt>>

\* HeadError with *args and **kwargs looked at before the return annotation.
HeadError_VariadicFirst(spec, hints) ==
  IF spec.varargs \/ spec.varkw
    THEN "UnsupportedVariadicParameters"
  ELSE IF ~("return" \in DOMAIN hints /\ isinstance(hints["return"], "ComponentOutput"))
    THEN "MissingOutputContract"
  ELSE IF spec.defaults > 0
    THEN "UnsupportedDefaultValue"
  ELSE ""

\* _validate_signature, the checks before the loop: the error of the first
\* check that fails, "" when all pass.
HeadError(spec, hints) ==
  IF ~("return" \in DOMAIN hints /\ isinstance(hints["return"], "ComponentOutput"))
    THEN "MissingOutputContract"
  ELSE IF spec.varargs \/ spec.varkw
    THEN "UnsupportedVariadicParameters"
  ELSE IF spec.defaults > 0
    THEN "UnsupportedDefaultValue"
  ELSE ""

ValidateHead ==
  /\ pc = "validate"
  /\ IF HeadError(argspec, typehints) # ""
       THEN Raise(HeadError(argspec, typehints))
       ELSE /\ pc' = IF Len(argspec.args) = 0 THEN "parse" ELSE "validate_args"
            /\ UNCHANGED <<error, first>>
  /\ UNCHANGED <<func, typehints, argspec, idx, inputs, outputs, arg_formats, calls,
                 mutatedAt>>

\* _validate_signature, the body of `for arg in args`: the error, "" when none.
ArgError(arg, hints) ==
  IF arg.nested THEN "UnsupportedNestedParameter"
  ELSE IF arg.name \notin DOMAIN hints THEN "MissingAnnotation"
  ELSE ""

\* _validate_signature, one iteration of `for arg in args`.
ValidateArg ==
  /\ pc = "validate_args"
  /\ idx <= Len(argspec.args)
  /\ IF ArgError(argspec.args[idx], typehints) # ""
       THEN Raise(ArgError(argspec.args[idx], typehints)) /\ idx' = idx
       ELSE /\ idx' = idx + 1
            /\ pc' = IF idx = Len(argspec.args) THEN "parse" ELSE "validate_args"
            /\ UNCHANGED <<error, first>>
  /\ UNCHANGED <<func, typehints, argspec, inputs, outputs, arg_formats, calls, mutatedAt>>

\* FreshArgFormats with the list kept from one call to the next.
FreshArgFormats_Kept(old) == old

\* The dicts and the list a call of _parse_signature starts from; old is what
\* the previous call left (and the caller may have modified).
FreshInputs(old) == EmptyDict
FreshOutputs(old) == EmptyDict
FreshArgFormats(old) == <<>>

\* _parse_signature, the three initialisations.
ParseStart ==
  /\ pc = "parse"
  /\ inputs' = FreshInputs(inputs)
  /\ outputs' = FreshOutputs(outputs)
  /\ arg_formats' = FreshArgFormats(arg_formats)
  /\ idx' = 1
  /\ pc' = IF Len(argspec.args) = 0 THEN "parse_fields" ELSE "parse_args"
  /\ UNCHANGED <<func, typehints, argspec, error, calls, mutatedAt, first>>

\* What one iteration of a loop of _parse_signature does to the contract.
Step(e, ins, outs, fmts) == [error |-> e, inputs |-> ins, outputs |-> outs, arg_formats |-> fmts]

\* _parse_signature, the body of `for arg in argspec.args`.
ArgStep(ins, outs, fmts, arg, arg_typehint) ==
  IF isinstance(arg_typehint, "InputArtifact")
    THEN Step("", Put(ins, arg, arg_typehint.type), outs,
              Append(fmts, <<"INPUT_ARTIFACT", arg>>))
  ELSE IF isinstance(arg_typehint, "InputArtifactUri")
    THEN Step("", Put(ins, arg, arg_typehint.type), outs,
              Append(fmts, <<"INPUT_ARTIFACT_URI", arg>>))
  ELSE IF isinstance(arg_typehint, "OutputArtifact")
    THEN Step("", ins, Put(outs, arg, arg_typehint.type),
              Append(fmts, <<"OUTPUT_ARTIFACT", arg>>))
  ELSE IF isinstance(arg_typehint, "OutputArtifactUri")
    THEN Step("", ins, Put(outs, arg, arg_typehint.type),
              Append(fmts, <<"OUTPUT_ARTIFACT_URI", arg>>))
  ELSE IF InPrimitiveTable(arg_typehint)
    THEN Step("", Put(ins, arg, _PRIMITIVE_TO_ARTIFACT[arg_typehint.type]), outs,
              Append(fmts, <<"ARTIFACT_VALUE", arg>>))
  ELSE Step("UnrecognizedInputAnnotation", ins, outs, fmts)

\* _parse_signature, one iteration of `for arg in argspec.args`.
ParseArg ==
  /\ pc = "parse_args"
  /\ idx <= Len(argspec.args)
  /\ LET arg == argspec.args[idx].name
         r == ArgStep(inputs, outputs, arg_formats, arg, typehints[arg])
     IN IF r.error # ""
        THEN /\ Raise(r.error)
             /\ UNCHANGED <<idx, inputs, outputs, arg_formats>>
        ELSE /\ inputs' = r.inputs
             /\ outputs' = r.outputs
             /\ arg_formats' = r.arg_formats
             /\ IF idx = Len(argspec.args)
                  THEN pc' = "parse_fields" /\ idx' = 1
                  ELSE pc' = "parse_args" /\ idx' = idx + 1
             /\ UNCHANGED <<error, first>>
  /\ UNCHANGED <<func, typehints, argspec, calls, mutatedAt>>

\* FieldStep with a primitive field recorded as an input.
FieldStep_IntoInputs(ins, outs, fmts, arg, arg_typehint) ==
  IF \/ isinstance(arg_typehint, "OutputArtifact")
     \/ isinstance(arg_typehint, "OutputArtifactUri")
     \/ IsArtifactClass(arg_typehint)
    THEN Step("MisplacedOutputArtifact", ins, outs, fmts)
  ELSE IF InPrimitiveTable(arg_typehint)
    THEN Step("", Put(ins, arg, _PRIMITIVE_TO_ARTIFACT[arg_typehint.type]), outs, fmts)
  ELSE Step("UnrecognizedOutputAnnotation", ins, outs, fmts)

\* FieldStep without the test for a bare artifact class.
FieldStep_MarkersOnly(ins, outs, fmts, arg, arg_typehint) ==
  IF \/ isinstance(arg_typehint, "OutputArtifact")
     \/ isinstance(arg_typehint, "OutputArtifactUri")
    THEN Step("MisplacedOutputArtifact", ins, outs, fmts)
  ELSE IF InPrimitiveTable(arg_typehint)
    THEN Step("", ins, Put(outs, arg, _PRIMITIVE_TO_ARTIFACT[arg_typehint.type]), fmts)
  ELSE Step("UnrecognizedOutputAnnotation", ins, outs, fmts)

\* _parse_signature, the body of `for arg, arg_typehint in ...kwargs.items()`.
FieldStep(ins, outs, fmts, arg, arg_typehint) ==
  IF \/ isinstance(arg_typehint, "OutputArtifact")
     \/ isinstance(arg_typehint, "OutputArtifactUri")
     \/ IsArtifactClass(arg_typehint)
    THEN Step("MisplacedOutputArtifact", ins, outs, fmts)
  ELSE IF InPrimitiveTable(arg_typehint)
    THEN Step("", ins, Put(outs, arg, _PRIMITIVE_TO_ARTIFACT[arg_typehint.type]), fmts)
  ELSE Step("UnrecognizedOutputAnnotation", ins, outs, fmts)

\* _parse_signature, one iteration of `for arg, arg_typehint in ...kwargs.items()`.
ParseField ==
  /\ pc = "parse_fields"
  /\ idx <= Len(typehints["return"].kwargs)
  /\ LET field == typehints["return"].kwargs[idx]
         r == FieldStep(inputs, outputs, arg_formats, field.name, field.hint)
     IN IF r.error # ""
        THEN /\ Raise(r.error)
             /\ UNCHANGED <<idx, inputs, outputs, arg_formats>>
        ELSE /\ inputs' = r.inputs
             /\ outputs' = r.outputs
             /\ arg_formats' = r.arg_formats
             /\ idx' = idx + 1
             /\ UNCHANGED <<pc, error, first>>
  /\ UNCHANGED <<func, typehints, argspec, calls, mutatedAt>>

\* return inputs, outputs, arg_formats
Return ==
  /\ pc = "parse_fields"
  /\ idx > Len(typehints["return"].kwargs)
  /\ pc' = "returned"
  /\ first' = IF calls = 1 THEN Contract(inputs, outputs, arg_formats) ELSE first
  /\ UNCHANGED <<func, typehints, argspec, idx, inputs, outputs, arg_formats, error,
                 calls, mutatedAt>>

\* The caller modifies the contract it was handed: the returned dicts and
\* list are the very objects _parse_signature built.
Mutate ==
  /\ pc = "returned"
  /\ mutatedAt # calls
  /\ mutatedAt' = calls
  /\ inputs' = Put(inputs, "junk", "Model")
  /\ outputs' = Put(outputs, "junk", "Model")
  /\ arg_formats' = Append(arg_formats, <<"ARTIFACT_VALUE", "junk">>)
  /\ UNCHANGED <<func, pc, typehints, argspec, idx, error, calls, first>>

Next ==
  \/ Call
  \/ ValidateHead
  \/ ValidateArg
  \/ ParseStart
  \/ ParseArg
  \/ ParseField
  \/ Return
  \/ Mutate

Spec == Init /\ [][Next]_vars

(* ======================================================================= *)
(* The properties checked of the parser.                                   *)
(* ======================================================================= *)

\* The parameters a declaration declares, in declaration order: the
\* positional ones, then the keyword-only ones.
Declared(f) ==
  [i \in 1..(Len(f.params) + Len(f.kwonly)) |->
     IF i <= Len(f.params)
       THEN [name |-> f.params[i].name, hint |-> f.params[i].hint]
       ELSE [name |-> f.kwonly[i - Len(f.params)].name,
             hint |-> f.kwonly[i - Len(f.params)].hint]]

Range(s) == { s[i] : i \in DOMAIN s }
FormatNames(fmts) == { fmts[i][2] : i \in DOMAIN fmts }
Fields(f) == f.ret.kwargs

Markers == {"InputArtifact", "InputArtifactUri", "OutputArtifact", "OutputArtifactUri"}
OutputMarkers == {"OutputArtifact", "OutputArtifactUri"}
Primitive(h) == h.kind = "class" /\ h.type \in {"int", "float", "bytes", "Text"}
Recognized(h) == h.kind \in Markers \/ Primitive(h)
ArtifactTyped(h) == h.kind \in OutputMarkers \/ (h.kind = "class" /\ h.type \in ArtifactClasses)

HasDefault(f) == f.ndefaults > 0 \/ \E i \in DOMAIN f.kwonly : f.kwonly[i].default
HasResultShape(f) == f.isFunction /\ f.ret.kind = "ComponentOutput"

\* The rules of the Signature Validator, over every declared parameter.
SatisfiesValidatorRules(f) ==
  /\ HasResultShape(f)
  /\ ~f.varargs /\ ~f.varkw
  /\ ~HasDefault(f)
  /\ \A p \in Range(Declared(f)) : p.hint # NoHint

\* The current call has ended.
Ended == pc \in {"returned", "raised"}

\* The current call has returned a contract, which is as it was returned.
Accepted == pc = "returned" /\ mutatedAt # calls

\* The format each marker selects.
FormatOf(h) ==
  CASE h.kind = "InputArtifact" -> "INPUT_ARTIFACT"
    [] h.kind = "InputArtifactUri" -> "INPUT_ARTIFACT_URI"
    [] h.kind = "OutputArtifact" -> "OUTPUT_ARTIFACT"
    [] h.kind = "OutputArtifactUri" -> "OUTPUT_ARTIFACT_URI"
    [] OTHER -> "ARTIFACT_VALUE"

(* ------------------------------- C1 ------------------------------------ *)
\* C1: for every accepted declaration, arg_formats has as many entries as the
\* declaration has parameters, and the i-th entry names the i-th declared
\* parameter.
C1_ArgFormatsFollowDeclaration ==
  Accepted =>
    /\ Len(arg_formats) = Len(Declared(func))
    /\ \A i \in DOMAIN arg_formats :
         i <= Len(Declared(func)) /\ arg_formats[i][2] = Declared(func)[i].name

(* ------------------------------- C2 ------------------------------------ *)
\* C2: for every accepted declaration, every parameter name is a key of
\* exactly one of inputs and outputs.
C2_ExactlyOneOfInputsOutputs ==
  Accepted =>
    \A p \in Range(Declared(func)) :
      (p.name \in DOMAIN inputs) # (p.name \in DOMAIN outputs)

(* ------------------------------- C3 ------------------------------------ *)
\* C3 as stated: the fields of the result-shape marker add entries only to
\* outputs, never to inputs or arg_formats, and a name that outputs holds
\* because of a field appears in no pair of arg_formats.
C3_FieldsOnlyInOutputs ==
  [][ pc = "parse_fields" =>
        /\ inputs' = inputs
        /\ arg_formats' = arg_formats
        /\ pc' = "returned" =>
             \A i \in DOMAIN Fields(func) :
               Fields(func)[i].name \notin FormatNames(arg_formats') ]_vars

\* C3 as amended: the fields of the result-shape marker add entries only to
\* outputs, never to inputs or arg_formats, every field is a key of outputs,
\* and a field's name appears in a pair of arg_formats exactly when a
\* positional parameter of the declaration has the same name.
C3_FieldsOnlyInOutputsAmended ==
  [][ pc = "parse_fields" =>
        /\ inputs' = inputs
        /\ arg_formats' = arg_formats
        /\ pc' = "returned" =>
             \A i \in DOMAIN Fields(func) :
               /\ Fields(func)[i].name \in DOMAIN outputs'
               /\ Fields(func)[i].name \in FormatNames(arg_formats')
                    <=> \E j \in DOMAIN func.params :
                          func.params[j].name = Fields(func)[i].name ]_vars

\* A contract is returned for a declaration with one field named as a
\* parameter and one field named as no parameter.
C3_Witness ==
  /\ Accepted
  /\ Len(arg_formats) = 1
  /\ \E i, j \in DOMAIN Fields(func) :
       /\ Fields(func)[i].name \in FormatNames(arg_formats)
       /\ Fields(func)[j].name \notin FormatNames(arg_formats)
       /\ {Fields(func)[i].name, Fields(func)[j].name} \subseteq DOMAIN outputs

(* ------------------------------- C4 ------------------------------------ *)
\* C4: for every accepted declaration and every parameter p, a marker
\* InputArtifact(T) or InputArtifactUri(T) gives inputs[p] = T, a marker
\* OutputArtifact(T) or OutputArtifactUri(T) gives outputs[p] = T, a primitive
\* gives inputs[p] = the artifact type of the lookup table, and p is listed in
\* arg_formats with the format of its annotation.
C4_ParameterBindings ==
  Accepted =>
    \A p \in Range(Declared(func)) :
      /\ <<FormatOf(p.hint), p.name>> \in Range(arg_formats)
      /\ p.hint.kind \in {"InputArtifact", "InputArtifactUri"} =>
           p.name \in DOMAIN inputs /\ inputs[p.name] = p.hint.type
      /\ p.hint.kind \in OutputMarkers =>
           p.name \in DOMAIN outputs /\ outputs[p.name] = p.hint.type
      /\ Primitive(p.hint) =>
           p.name \in DOMAIN inputs /\ inputs[p.name] = _PRIMITIVE_TO_ARTIFACT[p.hint.type]

(* ------------------------------- C5 ------------------------------------ *)
\* C5: a plain function whose return annotation is absent or is no
\* ComponentOutput instance fails with MissingOutputContract and returns no
\* contract, whatever its parameters are: its call never gets past the first
\* check of the validator.
C5_MissingOutputContract ==
  (func.isFunction /\ ~HasResultShape(func)) =>
    /\ pc \in {"idle", "validate", "raised"}
    /\ pc = "raised" => error = "MissingOutputContract"

\* The call of a function without a result shape that has *args, a default
\* value and an unannotated parameter has ended.
C5_Witness ==
  /\ func.isFunction /\ ~HasResultShape(func)
  /\ func.varargs /\ func.ndefaults > 0
  /\ \E i \in DOMAIN func.params : func.params[i].hint = NoHint
  /\ pc = "raised" /\ error = "MissingOutputContract"

(* ------------------------------- C6 ------------------------------------ *)
\* C6: a plain function with a result-shape return annotation and no variadic
\* parameters, one of whose parameters carries a default value, fails with
\* UnsupportedDefaultValue and returns no contract.
C6_DefaultValueRejected ==
  (HasResultShape(func) /\ ~func.varargs /\ ~func.varkw /\ HasDefault(func) /\ Ended) =>
    pc = "raised" /\ error = "UnsupportedDefaultValue"

(* ------------------------------- C7 ------------------------------------ *)
\* The position of the first field whose annotation is no primitive, 0 if none.
FirstNonPrimitive(fs) ==
  IF \A i \in DOMAIN fs : Primitive(fs[i].hint) THEN 0
  ELSE CHOOSE i \in DOMAIN fs :
         /\ ~Primitive(fs[i].hint)
         /\ \A j \in 1..(i - 1) : Primitive(fs[j].hint)

\* The declaration passes the validator, its parameters all carry recognized
\* annotations, and a field of its result shape is artifact-typed.
C7_Case ==
  /\ SatisfiesValidatorRules(func)
  /\ \A p \in Range(Declared(func)) : Recognized(p.hint)
  /\ \E i \in DOMAIN Fields(func) : ArtifactTyped(Fields(func)[i].hint)

\* C7 as stated: in that case parsing fails with MisplacedOutputArtifact,
\* whatever the other fields are.
C7_MisplacedOutputArtifact ==
  (C7_Case /\ Ended) => pc = "raised" /\ error = "MisplacedOutputArtifact"

\* C7 as amended: in that case parsing fails, and it fails with
\* MisplacedOutputArtifact exactly when the first field whose annotation is no
\* primitive is artifact-typed; otherwise the error is that of the earlier
\* field.
C7_MisplacedOutputArtifactAmended ==
  (C7_Case /\ Ended) =>
    /\ pc = "raised"
    /\ error = "MisplacedOutputArtifact"
         <=> ArtifactTyped(Fields(func)[FirstNonPrimitive(Fields(func))].hint)

\* Parsing has failed with MisplacedOutputArtifact for a declaration without an
\* output parameter whose artifact-typed field follows a primitive field.
C7_Witness ==
  /\ C7_Case
  /\ \A p \in Range(Declared(func)) : p.hint.kind \notin OutputMarkers
  /\ Len(func.params) > 0
  /\ FirstNonPrimitive(Fields(func)) = 2
  /\ pc = "raised" /\ error = "MisplacedOutputArtifact"

(* ------------------------------- C8 ------------------------------------ *)
\* C8: a second call on the same declaration ends as the first did, with the
\* same error or with equal inputs, outputs and arg_formats, also when the
\* caller has modified the contract the first call returned.
C8_SameOutcomeTwice ==
  (calls >= 2 /\ Ended /\ mutatedAt # calls) => Outcome = first

\* The second call has returned a contract with parameters and outputs, after
\* the caller modified the contract of the first call.
C8_Witness ==
  /\ calls = 2 /\ pc = "returned" /\ mutatedAt = 1
  /\ Len(arg_formats) = 2
  /\ DOMAIN outputs # {} /\ DOMAIN inputs # {}
  /\ Outcome = first

(* ------------------------------- C9 ------------------------------------ *)
\* A parameter annotated as an output and a primitive field bear the same
\* name, in a declaration that is valid otherwise.
C9_Collision(p, fld) ==
  /\ SatisfiesValidatorRules(func)
  /\ \A q \in Range(Declared(func)) : Recognized(q.hint)
  /\ \A i \in DOMAIN Fields(func) : Primitive(Fields(func)[i].hint)
  /\ p.hint.kind \in OutputMarkers
  /\ fld.name = p.name

\* C9: then parsing succeeds, outputs maps the name to the artifact type of
\* the field's primitive, and arg_formats lists the parameter with its output
\* format.
C9_FieldOverwritesOutputParameter ==
  \A p \in Range(Declared(func)) : \A fld \in Range(Fields(func)) :
    (C9_Collision(p, fld) /\ Ended /\ mutatedAt # calls) =>
      /\ pc = "returned"
      /\ p.name \in DOMAIN outputs
      /\ outputs[p.name] = _PRIMITIVE_TO_ARTIFACT[fld.hint.type]
      /\ <<FormatOf(p.hint), p.name>> \in Range(arg_formats)

(* ------------------------------- C10 ----------------------------------- *)
SemanticErrors ==
  {"UnrecognizedInputAnnotation", "MisplacedOutputArtifact", "UnrecognizedOutputAnnotation"}

\* C10: the checks run in a fixed order and the first failure is reported:
\* NotAFunction, MissingOutputContract, UnsupportedVariadicParameters,
\* UnsupportedDefaultValue, then MissingAnnotation; hence a semantic error is
\* reported only for a declaration that satisfies every rule of the validator,
\* and an error of a result-shape field only when every parameter annotation is
\* recognized.
C10_FirstFailureReported ==
  Ended =>
    /\ ~func.isFunction => error = "NotAFunction"
    /\ (func.isFunction /\ ~HasResultShape(func)) => error = "MissingOutputContract"
    /\ (HasResultShape(func) /\ (func.varargs \/ func.varkw)) =>
         error = "UnsupportedVariadicParameters"
    /\ error \in SemanticErrors => SatisfiesValidatorRules(func)
    /\ error \in {"MisplacedOutputArtifact", "UnrecognizedOutputAnnotation"} =>
         \A p \in Range(Declared(func)) : Recognized(p.hint)

====
